---- MODULE Spec2Model ----
(***************************************************************************)
(* Model of langchain/prompts/loading.py: the prompt loader.               *)
(*                                                                         *)
(* Python values are records [k, v] (k the type, v the payload).  A str is *)
(* kept as the tokens between its dots, with a flag for the hub prefix     *)
(* "lc://prompts/" and the temporary directory it lies in (0: none), so    *)
(* that Path.suffix, str.endswith and str.split(".")[-1] are computed as   *)
(* the three different functions they are.  A dict is a function from      *)
(* field names to values.  The call stack is explicit: one frame per       *)
(* active Python call, an exception in flight is the value of ret.         *)
(***************************************************************************)
EXTENDS Integers, Sequences, FiniteSets, TLC

VARIABLES stack, ret, failed, given, caller, results, tmpdirs, nextTmp, ctorLog

vars == <<stack, ret, failed, given, caller, results, tmpdirs, nextTmp, ctorLog>>

(***************************************************************************)
(* Bounds                                                                  *)
(***************************************************************************)
\* Frames the interpreter allows before RecursionError (sys.getrecursionlimit).
RecursionLimit == 10
\* Calls a caller makes in succession with the same argument.
MaxRounds == 2

(***************************************************************************)
(* Values                                                                  *)
(***************************************************************************)
URL_BASE == "https://raw.githubusercontent.com/hwchase17/langchain-hub/master/prompts/"

Str(parts) == [k |-> "str", v |-> [hub |-> FALSE, dir |-> 0, parts |-> parts]]
HubStr(parts) == [k |-> "str", v |-> [hub |-> TRUE, dir |-> 0, parts |-> parts]]
TmpStr(d, parts) == [k |-> "str", v |-> [hub |-> FALSE, dir |-> d, parts |-> parts]]
List(s) == [k |-> "list", v |-> s]
Dict(f) == [k |-> "dict", v |-> f]
Obj(cls, fields) == [k |-> "obj", v |-> [cls |-> cls, fields |-> fields]]
None == [k |-> "None", v |-> 0]
Num == [k |-> "int", v |-> 7]
Unbound == [k |-> "unbound", v |-> 0]
Err(kind, arg) == [k |-> "err", v |-> [kind |-> kind, arg |-> arg]]
NoRet == [k |-> "noret", v |-> 0]

Drop(c, f) == [g \in DOMAIN c \ {f} |-> c[g]]
Put(c, f, x) == [g \in DOMAIN c \cup {f} |-> IF g = f THEN x ELSE c[g]]

TemplateClasses == {"PromptTemplate", "FewShotPromptTemplate"}
IsTemplate(x) == x.k = "obj" /\ x.v.cls \in TemplateClasses

(***************************************************************************)
(* str and Path functions                                                  *)
(***************************************************************************)
\* pathlib: Path(s).suffix, without its dot; "" when the name has none.
PathSuffix(s) ==
    LET p == s.parts
        n == Len(p)
    IN  IF n >= 2 /\ p[n] # "" /\ (n > 2 \/ p[1] # "") THEN p[n] ELSE ""

\* s.endswith("." + e) for some e of exts
EndsWith(s, exts) == Len(s.parts) >= 2 /\ s.parts[Len(s.parts)] \in exts

\* s.split(".")[-1]
SplitLast(s) == s.parts[Len(s.parts)]

\* s.startswith("lc://prompts")
StartsWithHub(s) == s.hub

\* os.path.relpath(s, "lc://prompts/")
RelPath(s) == [s EXCEPT !.hub = FALSE]

(***************************************************************************)
(* The local file system and the remote hub                                *)
(*                                                                         *)
(* A file is [fmt, text, doc]: the serialization its bytes are written in, *)
(* the text f.read() returns, and what decoding the bytes gives (for a .py *)
(* source: what executing it binds PROMPT to).                             *)
(***************************************************************************)
TextFile(t) == [fmt |-> "text", text |-> Str(<<t>>), doc |-> None]
JsonFile(name, d) == [fmt |-> "json", text |-> Str(<<"json-source", name>>), doc |-> d]
YamlFile(name, d) == [fmt |-> "yaml", text |-> Str(<<"yaml-source", name>>), doc |-> d]
PyFile(name, d) == [fmt |-> "py", text |-> Str(<<"py-source", name>>), doc |-> d]

Tag(t) == Str(<<t>>)

SimpleConfig ==
    ("_type" :> Tag("prompt")) @@
    [template |-> Str(<<"Say {x}">>), input_variables |-> List(<<"x">>)]

RegexConfig == ("_type" :> Tag("regex_parser")) @@ [regex |-> Str(<<"(", "*)">>)]

\* A few_shot configuration whose sub-template comes from the file `ref`.
FewShotByPath(ref) ==
    ("_type" :> Tag("few_shot")) @@
    [suffix |-> Str(<<"Q: {x}">>), prefix_path |-> Str(<<"t", "txt">>),
     example_prompt_path |-> ref, examples |-> Str(<<"ex", "json">>)]

ExistingPrompt == Obj("PromptTemplate", [template |-> Str(<<"from code">>)])

LocalFS ==
    (<<"t", "txt">> :> TextFile("Tell {x}")) @@
    (<<"ex", "txt">> :> TextFile("r1 r2")) @@
    (<<"ex", "json">> :> JsonFile("ex", List(<<"r1", "r2", "r3">>))) @@
    (<<"ex", "yaml">> :> YamlFile("ex", List(<<"r2", "r1">>))) @@
    (<<"ex", "yml">> :> YamlFile("ex", List(<<"r2", "r1">>))) @@
    (<<"", "json">> :> JsonFile("", List(<<"r1">>))) @@
    (<<"p", "json">> :> JsonFile("p", Dict(SimpleConfig))) @@
    (<<"p", "yaml">> :> YamlFile("p", Dict(SimpleConfig))) @@
    (<<"p", "yml">> :> YamlFile("p", Dict(SimpleConfig))) @@
    (<<"p", "txt">> :> JsonFile("p", Dict(SimpleConfig))) @@
    (<<"p", "py">> :> PyFile("p", ExistingPrompt)) @@
    (<<"n", "py">> :> PyFile("n", Num)) @@
    (<<"u", "py">> :> PyFile("u", Unbound)) @@
    (<<"fs", "json">> :> JsonFile("fs", Dict(FewShotByPath(Str(<<"p", "yaml">>))))) @@
    (<<"loop", "yaml">> :> YamlFile("loop", Dict(FewShotByPath(Str(<<"loop", "yaml">>))))) @@
    (<<"viahub", "yaml">> :> YamlFile("viahub", Dict(FewShotByPath(HubStr(<<"h", "yaml">>)))))

\* What requests.get(URL_BASE + identifier) answers with status 200; every
\* other identifier is answered 404.
Hub ==
    (<<"h", "yaml">> :> YamlFile("h", Dict(SimpleConfig))) @@
    (<<"h", "json">> :> JsonFile("h", Dict(("_type" :> Tag("chat")) @@ SimpleConfig))) @@
    (<<"h", "py">> :> PyFile("h", ExistingPrompt)) @@
    (<<"h", "txt">> :> TextFile("Tell {x}")) @@
    (<<"hf", "json">> :> JsonFile("hf", Dict(FewShotByPath(HubStr(<<"h", "yaml">>))))) @@
    (<<"hloop", "yaml">> :> YamlFile("hloop", Dict(FewShotByPath(HubStr(<<"hloop", "yaml">>))))) @@
    (<<"hbad", "json">> :> JsonFile("hbad", Dict(FewShotByPath(HubStr(<<"nf", "yaml">>))))) @@
    (<<"json">> :> JsonFile("json", Dict(SimpleConfig)))

\* open(path): the file at a path, local or in a temporary directory.
Exists(s, tmp) ==
    IF s.dir = 0 THEN ~s.hub /\ s.parts \in DOMAIN LocalFS
    ELSE s.dir \in DOMAIN tmp /\ s.parts \in DOMAIN tmp[s.dir]
Open(s, tmp) == IF s.dir = 0 THEN LocalFS[s.parts] ELSE tmp[s.dir][s.parts]

\* json.load / yaml.safe_load: [ok, v].  JSON text is YAML text too, and YAML
\* reads plain text as one scalar.
json_load(file) ==
    IF file.fmt = "json" THEN [ok |-> TRUE, v |-> file.doc] ELSE [ok |-> FALSE, v |-> None]
yaml_safe_load(file) ==
    IF file.fmt \in {"json", "yaml"} THEN [ok |-> TRUE, v |-> file.doc]
    ELSE IF file.fmt = "text" THEN [ok |-> TRUE, v |-> file.text]
    ELSE [ok |-> FALSE, v |-> None]

(***************************************************************************)
(* Materializers.  Each takes the dict and gives [cfg, err, calls]: the    *)
(* dict as the call leaves it (it is mutated in place, also when the call  *)
(* raises), the exception raised (NoRet: none), and the constructor calls  *)
(* made, each with the keyword arguments it was given.                     *)
(***************************************************************************)
Done(c) == [cfg |-> c, err |-> NoRet, calls |-> <<>>]
Raise(c, kind, arg) == [cfg |-> c, err |-> Err(kind, arg), calls |-> <<>>]

\* f"{var_name}_path"
PathField(var_name) ==
    CASE var_name = "template" -> "template_path"
      [] var_name = "suffix" -> "suffix_path"
      [] var_name = "prefix" -> "prefix_path"
      [] var_name = "example_prompt" -> "example_prompt_path"
      [] var_name = "examples" -> "examples_path"
      [] OTHER -> "input_variables_path"

\* Variant of ReadTemplateFile that reads the path without popping it.
ReadTemplateFile_keep_path(var_name, config, tmp) ==
    LET template_path == config[PathField(var_name)] IN
    IF template_path.k # "str"
    THEN Raise(config, "TypeError", <<PathField(var_name)>>)
    ELSE IF PathSuffix(template_path.v) = "txt"
    THEN IF Exists(template_path.v, tmp)
         THEN Done(Put(config, var_name, Open(template_path.v, tmp).text))
         ELSE Raise(config, "FileNotFoundError", template_path.v.parts)
    ELSE Raise(config, "UnsupportedFormatError", <<PathSuffix(template_path.v)>>)

\* Lines 40-48: pop the path, read the .txt file, set the field.
ReadTemplateFile(var_name, config, tmp) ==
    LET template_path == config[PathField(var_name)]
        popped == Drop(config, PathField(var_name))
    IN  IF template_path.k # "str"
        THEN Raise(popped, "TypeError", <<PathField(var_name)>>)
        ELSE IF PathSuffix(template_path.v) = "txt"
        THEN IF Exists(template_path.v, tmp)
             THEN Done(Put(popped, var_name, Open(template_path.v, tmp).text))
             ELSE Raise(popped, "FileNotFoundError", template_path.v.parts)
        ELSE Raise(popped, "UnsupportedFormatError", <<PathSuffix(template_path.v)>>)

\* Variant of _load_template that keeps the inline value when both are given.
_load_template_prefer_inline(var_name, config, tmp) ==
    IF PathField(var_name) \in DOMAIN config
    THEN IF var_name \in DOMAIN config
         THEN Done(Drop(config, PathField(var_name)))
         ELSE ReadTemplateFile(var_name, config, tmp)
    ELSE Done(config)

_load_template(var_name, config, tmp) ==
    IF PathField(var_name) \in DOMAIN config
    THEN IF var_name \in DOMAIN config
         THEN Raise(config, "ConflictingFieldError", <<PathField(var_name), var_name>>)
         ELSE ReadTemplateFile(var_name, config, tmp)
    ELSE Done(config)

_load_examples(config, tmp) ==
    IF "examples" \notin DOMAIN config
    THEN Raise(config, "KeyError", <<"examples">>)
    ELSE LET ex == config["examples"] IN
         IF ex.k = "list" THEN Done(config)
         ELSE IF ex.k = "str"
         THEN IF ~Exists(ex.v, tmp)
              THEN Raise(config, "FileNotFoundError", ex.v.parts)
              ELSE LET f == Open(ex.v, tmp) IN
                   IF EndsWith(ex.v, {"json"})
                   THEN IF json_load(f).ok
                        THEN Done(Put(config, "examples", json_load(f).v))
                        ELSE Raise(config, "JSONDecodeError", ex.v.parts)
                   ELSE IF EndsWith(ex.v, {"yaml", "yml"})
                   THEN IF yaml_safe_load(f).ok
                        THEN Done(Put(config, "examples", yaml_safe_load(f).v))
                        ELSE Raise(config, "YAMLError", ex.v.parts)
                   ELSE Raise(config, "UnsupportedExamplesFormatError", ex.v.parts)
         ELSE Raise(config, "InvalidExamplesTypeError", <<ex.k>>)

\* RegexParser(**kwargs): the strategy object holding what it was given.
RegexParser(kwargs) == Obj("RegexParser", kwargs)

\* Variant of _load_output_parser that passes an unrecognized tag by.
_load_output_parser_lenient(config) ==
    IF "output_parser" \in DOMAIN config /\ config["output_parser"] # None
    THEN LET _config == config["output_parser"] IN
         IF _config.k # "dict"
         THEN Raise(config, "TypeError", <<"output_parser">>)
         ELSE IF "_type" \notin DOMAIN _config.v
         THEN Raise(config, "KeyError", <<"_type">>)
         ELSE IF _config.v["_type"] = Tag("regex_parser")
         THEN [cfg |-> Put(config, "output_parser", RegexParser(_config.v)),
               err |-> NoRet,
               calls |-> <<[ctor |-> "RegexParser", keys |-> DOMAIN _config.v]>>]
         ELSE Done(config)
    ELSE Done(config)

_load_output_parser(config) ==
    IF "output_parser" \in DOMAIN config /\ config["output_parser"] # None
    THEN LET _config == config["output_parser"] IN
         IF _config.k # "dict"
         THEN Raise(config, "TypeError", <<"output_parser">>)
         ELSE IF "_type" \notin DOMAIN _config.v
         THEN Raise(config, "KeyError", <<"_type">>)
         ELSE LET output_parser_type == _config.v["_type"] IN
              IF output_parser_type = Tag("regex_parser")
              THEN [cfg |-> Put(config, "output_parser", RegexParser(_config.v)),
                    err |-> NoRet,
                    calls |-> <<[ctor |-> "RegexParser", keys |-> DOMAIN _config.v]>>]
              ELSE Raise(config, "UnsupportedStrategyError",
                         IF output_parser_type.k = "str"
                         THEN output_parser_type.v.parts ELSE <<output_parser_type.k>>)
    ELSE Done(config)

\* PromptTemplate(**kwargs) and FewShotPromptTemplate(**kwargs): the object's
\* own validation of the assembled fields.
PromptTemplate(kwargs) ==
    IF /\ "template" \in DOMAIN kwargs
       /\ kwargs["template"].k = "str"
       /\ ("output_parser" \in DOMAIN kwargs
              => kwargs["output_parser"].k \in {"obj", "None"})
    THEN Obj("PromptTemplate", kwargs)
    ELSE Err("ConstructionError", <<"PromptTemplate">>)

FewShotPromptTemplate(kwargs) ==
    IF /\ {"examples", "suffix", "prefix", "example_prompt"} \subseteq DOMAIN kwargs
       /\ kwargs["examples"].k = "list"
       /\ kwargs["suffix"].k = "str"
       /\ kwargs["prefix"].k = "str"
       /\ IsTemplate(kwargs["example_prompt"])
       /\ ("output_parser" \in DOMAIN kwargs
              => kwargs["output_parser"].k \in {"obj", "None"})
    THEN Obj("FewShotPromptTemplate", kwargs)
    ELSE Err("ConstructionError", <<"FewShotPromptTemplate">>)

(***************************************************************************)
(* The call stack                                                          *)
(*                                                                         *)
(* A frame is [fn, pc, arg, alias, tmp, done]: the function, its position, *)
(* the dict or path it works on, how that dict is shared with the frame    *)
(* below ("same": the same dict; "field": the dict under the caller's      *)
(* example_prompt; "none"), the temporary directory it holds (0: none) and *)
(* the statements it has started, in order.                                *)
(***************************************************************************)
\* The order of the statements of _load_prompt and of _load_few_shot_prompt.
PromptSteps == <<"template", "output_parser", "construct">>
\* Variant of FewShotSteps that resolves the prefix first.
FewShotSteps_prefix_first ==
    <<"prefix", "suffix", "example_prompt", "examples", "output_parser", "construct">>

FewShotSteps ==
    <<"suffix", "prefix", "example_prompt", "examples", "output_parser", "construct">>

After(steps, pc) == steps[(CHOOSE i \in 1..Len(steps) : steps[i] = pc) + 1]

EntryPc(fn) ==
    IF fn = "_load_few_shot_prompt" THEN FewShotSteps[1]
    ELSE IF fn = "_load_prompt" THEN PromptSteps[1]
    ELSE "start"

Frame(fn, arg, alias) ==
    [fn |-> fn, pc |-> EntryPc(fn), arg |-> arg, alias |-> alias, tmp |-> 0, done |-> <<>>]

Top == stack[Len(stack)]
SetTop(st, f) == [st EXCEPT ![Len(st)] = f]
Running == stack # <<>> /\ ret.k # "err"
At(fn, pc) == Running /\ Top.fn = fn /\ Top.pc = pc

\* A dict mutated by the callee is the caller's dict, or lies inside it.
WriteBack(parent, f) ==
    IF f.alias = "same" THEN [parent EXCEPT !.arg = f.arg]
    ELSE IF f.alias = "field"
    THEN [parent EXCEPT !.arg = Dict(Put(parent.arg.v, "example_prompt", f.arg))]
    ELSE parent

Popped(st) ==
    LET n == Len(st) IN
    IF n = 1 THEN <<>> ELSE SetTop(SubSeq(st, 1, n - 1), WriteBack(st[n - 1], st[n]))

CallerAfter(st) == IF Len(st) = 1 /\ st[1].alias = "same" THEN st[1].arg ELSE caller

\* Variant of ExitTmpScope that cleans up only when the block returns.
ExitTmpScope_on_return(f, tmp, raising) ==
    IF raising THEN tmp ELSE [d \in DOMAIN tmp \ {f.tmp} |-> tmp[d]]

\* Leaving `with tempfile.TemporaryDirectory()`: the directory and the file in
\* it are removed, whether the block returned or raised.
ExitTmpScope(f, tmp, raising) == [d \in DOMAIN tmp \ {f.tmp} |-> tmp[d]]

NoFailure == [depth |-> 0, fn |-> "", step |-> "", err |-> NoRet]

\* The four ways a statement of the top frame ends; `top` is the frame as the
\* statement leaves it.  Each gives stack, ret, failed and caller.
Goto(top) ==
    /\ stack' = SetTop(stack, top)
    /\ ret' = NoRet
    /\ UNCHANGED <<failed, caller>>

Throw(top, e) ==
    /\ stack' = SetTop(stack, top)
    /\ ret' = e
    /\ failed' = [depth |-> Len(stack), fn |-> Top.fn, step |-> Top.pc, err |-> e]
    /\ UNCHANGED caller

Call(top, fn, arg, alias) ==
    IF Len(stack) >= RecursionLimit
    THEN Throw(top, Err("RecursionError", <<fn>>))
    ELSE /\ stack' = Append(SetTop(stack, top), Frame(fn, arg, alias))
         /\ ret' = NoRet
         /\ UNCHANGED <<failed, caller>>

ReturnValue(top, x) ==
    /\ stack' = Popped(SetTop(stack, top))
    /\ caller' = CallerAfter(SetTop(stack, top))
    /\ ret' = x
    /\ UNCHANGED failed

Log(calls) == ctorLog' = ctorLog \cup {calls[i] : i \in 1..Len(calls)}

\* A materializer has run in the top frame with outcome r.
Materialized(r, nextpc) ==
    LET top == [Top EXCEPT !.arg = Dict(r.cfg), !.done = Append(@, Top.pc)] IN
    /\ IF r.err = NoRet THEN Goto([top EXCEPT !.pc = nextpc]) ELSE Throw(top, r.err)
    /\ Log(r.calls)
    /\ UNCHANGED <<given, results, tmpdirs, nextTmp>>

\* A constructor has run in the top frame on its dict and given x.
Constructed(ctor, x) ==
    LET top == [Top EXCEPT !.done = Append(@, Top.pc)] IN
    /\ IF x.k = "err" THEN Throw(top, x) ELSE ReturnValue(top, x)
    /\ Log(<<[ctor |-> ctor, keys |-> DOMAIN Top.arg.v]>>)
    /\ UNCHANGED <<given, results, tmpdirs, nextTmp>>

(***************************************************************************)
(* load_prompt_from_config                                                 *)
(***************************************************************************)
load_prompt_from_config ==
    /\ At("load_prompt_from_config", "start")
    /\ IF Top.arg.k # "dict"
       THEN Throw(Top, Err("AttributeError", <<"pop">>))
       ELSE LET config == Top.arg.v
                prompt_type == IF "_type" \in DOMAIN config
                               THEN config["_type"] ELSE Tag("prompt")
                top == [Top EXCEPT !.arg = Dict(Drop(config, "_type")), !.pc = "wait"]
            IN  IF prompt_type = Tag("prompt")
                THEN Call(top, "_load_prompt", top.arg, "same")
                ELSE IF prompt_type = Tag("few_shot")
                THEN Call(top, "_load_few_shot_prompt", top.arg, "same")
                ELSE Throw(top, Err("UnknownPromptTypeError", <<>>))
    /\ UNCHANGED <<given, results, tmpdirs, nextTmp, ctorLog>>

(***************************************************************************)
(* _load_prompt                                                            *)
(***************************************************************************)
LoadPrompt_template ==
    /\ At("_load_prompt", "template")
    /\ Materialized(_load_template("template", Top.arg.v, tmpdirs),
                    After(PromptSteps, "template"))

LoadPrompt_output_parser ==
    /\ At("_load_prompt", "output_parser")
    /\ Materialized(_load_output_parser(Top.arg.v), After(PromptSteps, "output_parser"))

LoadPrompt_construct ==
    /\ At("_load_prompt", "construct")
    /\ Constructed("PromptTemplate", PromptTemplate(Top.arg.v))

(***************************************************************************)
(* _load_few_shot_prompt                                                   *)
(***************************************************************************)
FewShot_suffix ==
    /\ At("_load_few_shot_prompt", "suffix")
    /\ Materialized(_load_template("suffix", Top.arg.v, tmpdirs),
                    After(FewShotSteps, "suffix"))

FewShot_prefix ==
    /\ At("_load_few_shot_prompt", "prefix")
    /\ Materialized(_load_template("prefix", Top.arg.v, tmpdirs),
                    After(FewShotSteps, "prefix"))

\* Variant of InlineExamplePrompt that resolves the dict itself again.
InlineExamplePrompt_whole(top, config) ==
    Call(top, "load_prompt_from_config", Dict(config), "same")

\* Line 100, up to the call: the Config Resolver on the inline dict.
InlineExamplePrompt(top, config) ==
    IF "example_prompt" \notin DOMAIN config
    THEN Throw(top, Err("KeyError", <<"example_prompt">>))
    ELSE Call(top, "load_prompt_from_config", config["example_prompt"], "field")

\* Lines 92-100, up to the call: the conflict check, then load_prompt on the
\* popped path or the Config Resolver on the inline dict.
FewShot_example_prompt ==
    /\ At("_load_few_shot_prompt", "example_prompt")
    /\ ret = NoRet
    /\ LET config == Top.arg.v
           top == [Top EXCEPT !.done = Append(@, "example_prompt")]
       IN  IF "example_prompt_path" \in DOMAIN config
           THEN IF "example_prompt" \in DOMAIN config
                THEN Throw(top, Err("ConflictingFieldError",
                                    <<"example_prompt_path", "example_prompt">>))
                ELSE Call([top EXCEPT !.arg = Dict(Drop(config, "example_prompt_path"))],
                          "load_prompt", config["example_prompt_path"], "none")
           ELSE InlineExamplePrompt(top, config)
    /\ UNCHANGED <<given, results, tmpdirs, nextTmp, ctorLog>>

\* config["example_prompt"] = <the object the call returned>
FewShot_example_prompt_assign ==
    /\ At("_load_few_shot_prompt", "example_prompt")
    /\ ret # NoRet
    /\ Goto([Top EXCEPT !.arg = Dict(Put(Top.arg.v, "example_prompt", ret)),
                        !.pc = After(FewShotSteps, "example_prompt")])
    /\ UNCHANGED <<given, results, tmpdirs, nextTmp, ctorLog>>

FewShot_examples ==
    /\ At("_load_few_shot_prompt", "examples")
    /\ Materialized(_load_examples(Top.arg.v, tmpdirs), After(FewShotSteps, "examples"))

FewShot_output_parser ==
    /\ At("_load_few_shot_prompt", "output_parser")
    /\ Materialized(_load_output_parser(Top.arg.v), After(FewShotSteps, "output_parser"))

FewShot_construct ==
    /\ At("_load_few_shot_prompt", "construct")
    /\ Constructed("FewShotPromptTemplate", FewShotPromptTemplate(Top.arg.v))

(***************************************************************************)
(* load_prompt, _load_prompt_from_file, _load_from_hub                     *)
(***************************************************************************)
load_prompt ==
    /\ At("load_prompt", "start")
    /\ LET path == Top.arg
           top == [Top EXCEPT !.pc = "wait"]
       IN  IF path.k = "str" /\ StartsWithHub(path.v)
           THEN Call(top, "_load_from_hub", [path EXCEPT !.v = RelPath(path.v)], "none")
           ELSE Call(top, "_load_prompt_from_file", path, "none")
    /\ UNCHANGED <<given, results, tmpdirs, nextTmp, ctorLog>>

\* The extensions whose files are parsed into a configuration, each with its
\* decoder.
ConfigFormats == [json |-> "json", yaml |-> "yaml"]

Decode(fmt, f) == IF fmt = "json" THEN json_load(f) ELSE yaml_safe_load(f)

_load_prompt_from_file ==
    /\ At("_load_prompt_from_file", "start")
    /\ LET file == Top.arg
           top == [Top EXCEPT !.pc = "wait"]
       IN  IF file.k # "str"
           THEN Throw(Top, Err("AttributeError", <<"suffix">>))
           ELSE LET suffix == PathSuffix(file.v) IN
                IF suffix \in DOMAIN ConfigFormats
                THEN IF ~Exists(file.v, tmpdirs)
                     THEN Throw(Top, Err("FileNotFoundError", file.v.parts))
                     ELSE LET config == Decode(ConfigFormats[suffix], Open(file.v, tmpdirs)) IN
                          IF ~config.ok
                          THEN Throw(Top, Err("DecodeError", file.v.parts))
                          ELSE Call(top, "load_prompt_from_config", config.v, "none")
                ELSE IF suffix = "py"
                THEN IF ~Exists(file.v, tmpdirs)
                     THEN Throw(Top, Err("FileNotFoundError", file.v.parts))
                     ELSE LET helper == Open(file.v, tmpdirs) IN
                          IF helper.fmt # "py"
                          THEN Throw(Top, Err("SyntaxError", file.v.parts))
                          ELSE IF helper.doc = Unbound
                          THEN Throw(Top, Err("AttributeError", <<"PROMPT">>))
                          ELSE IF ~IsTemplate(helper.doc)
                          THEN Throw(Top, Err("InvalidPromptBindingError", <<helper.doc.k>>))
                          ELSE ReturnValue(Top, helper.doc)
                ELSE Throw(Top, Err("UnsupportedFormatError", <<suffix>>))
    /\ UNCHANGED <<given, results, tmpdirs, nextTmp, ctorLog>>

HubFormats == {"py", "json", "yaml"}

\* Lines 158-164: the extension check and the fetch.
LoadFromHub_fetch ==
    /\ At("_load_from_hub", "start")
    /\ LET path == Top.arg.v
           suffix == SplitLast(path)
       IN  IF suffix \notin HubFormats
           THEN Throw(Top, Err("UnsupportedFormatError", <<suffix>>))
           ELSE IF path.parts \notin DOMAIN Hub
           THEN Throw(Top, Err("NotFoundError", <<URL_BASE>> \o path.parts))
           ELSE Goto([Top EXCEPT !.pc = "fetched"])
    /\ UNCHANGED <<given, results, tmpdirs, nextTmp, ctorLog>>

\* Lines 165-169: a fresh temporary directory, the fetched bytes written to
\* prompt.<suffix> in it, and the call of the Format Reader on that file.
LoadFromHub_write ==
    /\ At("_load_from_hub", "fetched")
    /\ LET path == Top.arg.v
           suffix == SplitLast(path)
           tmpdirname == nextTmp
           file == TmpStr(tmpdirname, <<"prompt", suffix>>)
       IN  /\ nextTmp' = nextTmp + 1
           /\ tmpdirs' = [d \in DOMAIN tmpdirs \cup {tmpdirname} |->
                            IF d = tmpdirname THEN (file.v.parts :> Hub[path.parts])
                            ELSE tmpdirs[d]]
           /\ Call([Top EXCEPT !.pc = "wait", !.tmp = tmpdirname],
                   "_load_prompt_from_file", file, "none")
    /\ UNCHANGED <<given, results, ctorLog>>

(***************************************************************************)
(* Returning and raising                                                   *)
(***************************************************************************)
\* `return callee(...)`: the callee's value is the frame's own.
Return ==
    /\ Running
    /\ Top.pc = "wait"
    /\ ret # NoRet
    /\ stack' = Popped(stack)
    /\ caller' = CallerAfter(stack)
    /\ tmpdirs' = ExitTmpScope(Top, tmpdirs, FALSE)
    /\ UNCHANGED <<ret, failed, given, results, nextTmp, ctorLog>>

\* An exception leaves the top frame.
Unwind ==
    /\ stack # <<>>
    /\ ret.k = "err"
    /\ stack' = Popped(stack)
    /\ caller' = CallerAfter(stack)
    /\ tmpdirs' = ExitTmpScope(Top, tmpdirs, TRUE)
    /\ UNCHANGED <<ret, failed, given, results, nextTmp, ctorLog>>

\* The caller receives the object or the exception.
Finish ==
    /\ stack = <<>>
    /\ ret # NoRet
    /\ results' = Append(results, ret)
    /\ ret' = NoRet
    /\ UNCHANGED <<stack, failed, given, caller, tmpdirs, nextTmp, ctorLog>>

(***************************************************************************)
(* The inputs a caller may hand in                                         *)
(***************************************************************************)
Absent == [k |-> "absent", v |-> 0]

\* The dict with the fields of `fields` that are not Absent.
Given(fields) == [f \in {g \in DOMAIN fields : fields[g] # Absent} |-> fields[f]]

Text == Str(<<"Tell {x}">>)
OtherConfig == ("_type" :> Tag("json_parser")) @@ [regex |-> Str(<<"(", "*)">>)]
UntaggedConfig == [regex |-> Str(<<"(", "*)">>)]

InlineFewShot(sub) ==
    ("_type" :> Tag("few_shot")) @@
    [suffix |-> Text, prefix |-> Text, examples |-> List(<<"r1", "r2">>),
     example_prompt |-> sub]

TypeTags == {Absent, Tag("prompt"), Tag("chat")}
TemplatePaths == {Absent, Str(<<"t", "txt">>), Str(<<"t", "json">>), Str(<<"gone", "txt">>)}
OutputParsers == {Absent, None, Dict(RegexConfig), Dict(OtherConfig)}

PromptConfigs ==
    { Given(("_type" :> ty) @@
            [template |-> t, template_path |-> tp, output_parser |-> op,
             suffix |-> sx, suffix_path |-> sx, input_variables |-> List(<<"x">>)]) :
        ty \in TypeTags, t \in {Absent, Text}, tp \in TemplatePaths,
        op \in OutputParsers, sx \in {Absent, Str(<<"t", "txt">>)} }

ExamplePrompts ==
    {Absent, Dict(SimpleConfig), Dict(InlineFewShot(Dict(SimpleConfig))),
     Dict(InlineFewShot(Dict(InlineFewShot(Dict(SimpleConfig)))))}
ExamplePromptPaths ==
    {Absent, Str(<<"p", "json">>), Str(<<"loop", "yaml">>), HubStr(<<"h", "yaml">>)}
Examples ==
    {List(<<"r1", "r2">>), Str(<<"ex", "json">>), Str(<<"ex", "txt">>),
     Str(<<"gone", "txt">>), Num}

FewShotConfigs ==
    { Given(("_type" :> Tag("few_shot")) @@
            [suffix |-> s, suffix_path |-> sp, prefix |-> pr, prefix_path |-> pp,
             example_prompt |-> ep, example_prompt_path |-> epp,
             examples |-> ex, output_parser |-> op]) :
        s \in {Absent, Text}, sp \in {Absent, Str(<<"t", "txt">>), Str(<<"t", "json">>)},
        pr \in {Absent, Text}, pp \in {Absent, Str(<<"t", "txt">>)},
        ep \in ExamplePrompts, epp \in ExamplePromptPaths,
        ex \in Examples, op \in {Absent, Dict(RegexConfig), Dict(OtherConfig)} }

Configs == PromptConfigs \cup FewShotConfigs

Paths ==
    {Str(p) : p \in DOMAIN LocalFS \cup {<<"gone", "json">>, <<"p">>, <<"", "yaml">>}}
    \cup {HubStr(p) : p \in DOMAIN Hub \cup {<<"nf", "yaml">>, <<"nf", "yml">>}}

\* The fields _load_template is asked to resolve, and the dicts it, _load_examples
\* and _load_output_parser are tried on alone.
VarNames == {"template", "suffix", "prefix", "examples"}
FieldPaths ==
    {Absent, Str(<<"t", "txt">>), Str(<<"p", "txt">>), Str(<<"t", "json">>),
     Str(<<"gone", "txt">>), Str(<<"", "txt">>), Str(<<"t">>), HubStr(<<"t", "txt">>), None}
TemplateInputs ==
    { Given([template |-> t, template_path |-> tp, suffix |-> sx, suffix_path |-> sp,
             examples_path |-> sp, input_variables |-> List(<<"x">>)]) :
        t \in {Absent, Text}, tp \in FieldPaths, sx \in {Absent, Text},
        sp \in {Absent, Str(<<"t", "txt">>)} }
ExamplesInputs ==
    { Given([examples |-> ex, suffix |-> Text]) :
        ex \in Examples \cup {Absent, None, Dict(SimpleConfig), List(<<>>),
                              Str(<<"ex", "yaml">>), Str(<<"ex", "yml">>), Str(<<"", "json">>),
                              Str(<<"p", "json">>), Str(<<"t", "txt">>), Str(<<"gone", "json">>),
                              Str(<<"p", "py">>), HubStr(<<"h", "yaml">>)} }
ParserInputs ==
    { Given([output_parser |-> op, template |-> Text]) :
        op \in OutputParsers \cup {Dict(UntaggedConfig), Text, Num,
                                   Dict(("_type" :> Num) @@ UntaggedConfig),
                                   RegexParser(RegexConfig)} }

(***************************************************************************)
(* The caller                                                              *)
(***************************************************************************)
Idle == stack = <<>> /\ ret = NoRet

Enter(entry, var, arg, alias) ==
    /\ given' = [entry |-> entry, var |-> var, arg |-> arg]
    /\ caller' = arg
    /\ stack' = <<Frame(entry, arg, alias)>>
    /\ UNCHANGED <<ret, failed, results, tmpdirs, nextTmp, ctorLog>>

CallLoadPromptFromConfig ==
    /\ Idle /\ given.entry = "none"
    /\ \E config \in Configs : Enter("load_prompt_from_config", "", Dict(config), "same")

CallLoadPrompt ==
    /\ Idle /\ given.entry = "none"
    /\ \E path \in Paths : Enter("load_prompt", "", path, "none")

\* A materializer called alone: it returns the dict it was given, mutated.
Applied(entry, var, config, r) ==
    /\ given' = [entry |-> entry, var |-> var, arg |-> Dict(config)]
    /\ caller' = Dict(r.cfg)
    /\ results' = <<IF r.err = NoRet THEN Dict(r.cfg) ELSE r.err>>
    /\ failed' = [depth |-> 0, fn |-> entry, step |-> var, err |-> r.err]
    /\ Log(r.calls)
    /\ UNCHANGED <<stack, ret, tmpdirs, nextTmp>>

CallLoadTemplate ==
    /\ Idle /\ given.entry = "none"
    /\ \E var_name \in VarNames, config \in TemplateInputs :
          Applied("_load_template", var_name, config,
                  _load_template(var_name, config, tmpdirs))

CallLoadExamples ==
    /\ Idle /\ given.entry = "none"
    /\ \E config \in ExamplesInputs :
          Applied("_load_examples", "", config, _load_examples(config, tmpdirs))

CallLoadOutputParser ==
    /\ Idle /\ given.entry = "none"
    /\ \E config \in ParserInputs :
          Applied("_load_output_parser", "", config, _load_output_parser(config))

\* The caller loads again, with the same dict or the same path.
CallAgain ==
    /\ Idle
    /\ given.entry \in {"load_prompt_from_config", "load_prompt"}
    /\ Len(results) < MaxRounds
    /\ stack' = <<Frame(given.entry, caller,
                        IF given.entry = "load_prompt_from_config" THEN "same" ELSE "none")>>
    /\ failed' = NoFailure
    /\ UNCHANGED <<ret, given, caller, results, tmpdirs, nextTmp, ctorLog>>

Init ==
    /\ stack = <<>>
    /\ ret = NoRet
    /\ failed = NoFailure
    /\ given = [entry |-> "none", var |-> "", arg |-> None]
    /\ caller = None
    /\ results = <<>>
    /\ tmpdirs = <<>>
    /\ nextTmp = 1
    /\ ctorLog = {}

Next ==
    \/ CallLoadPromptFromConfig
    \/ CallLoadPrompt
    \/ CallLoadTemplate
    \/ CallLoadExamples
    \/ CallLoadOutputParser
    \/ CallAgain
    \/ load_prompt_from_config
    \/ LoadPrompt_template
    \/ LoadPrompt_output_parser
    \/ LoadPrompt_construct
    \/ FewShot_suffix
    \/ FewShot_prefix
    \/ FewShot_example_prompt
    \/ FewShot_example_prompt_assign
    \/ FewShot_examples
    \/ FewShot_output_parser
    \/ FewShot_construct
    \/ load_prompt
    \/ _load_prompt_from_file
    \/ LoadFromHub_fetch
    \/ LoadFromHub_write
    \/ Return
    \/ Unwind
    \/ Finish

Spec == Init /\ [][Next]_vars

\* Every call ends: WF of the interpreter's steps (single-threaded, blocking
\* calls; nothing else is scheduled).
FairSpec == Spec /\ WF_vars(Next)

(***************************************************************************)
(* Properties                                                              *)
(***************************************************************************)
Range(seq) == {seq[i] : i \in 1..Len(seq)}
IsPrefix(a, b) == Len(a) <= Len(b) /\ a = SubSeq(b, 1, Len(a))
ErrKind(x) == IF x.k = "err" THEN x.v.kind ELSE ""
FirstLoadOver(entry) == given.entry = entry /\ Len(results) >= 1
FileThere(s) == ~s.hub /\ s.dir = 0 /\ s.parts \in DOMAIN LocalFS

ResolvedType(c) == IF "_type" \in DOMAIN c THEN c["_type"] ELSE Tag("prompt")
Twins(c, fields) == {F \in fields : F \in DOMAIN c /\ PathField(F) \in DOMAIN c}
\* The twin pairs the selected variant resolves.
ResolvedTwins(c) ==
    IF ResolvedType(c) = Tag("prompt") THEN Twins(c, {"template"})
    ELSE IF ResolvedType(c) = Tag("few_shot")
    THEN Twins(c, {"suffix", "prefix", "example_prompt"})
    ELSE {}
ClaimedOrder ==
    <<"suffix", "prefix", "example_prompt", "examples", "output_parser", "construct">>
Earlier(a, b) ==
    \E i, j \in 1..Len(ClaimedOrder) : ClaimedOrder[i] = a /\ ClaimedOrder[j] = b /\ i < j

\* C1 as stated: every configuration that supplies a field and its _path twin
\* fails with ConflictingFieldError, whatever its other fields are.
C1_AnyTwinsConflict ==
    (FirstLoadOver("load_prompt_from_config")
        /\ Twins(given.arg.v, {"template", "suffix", "prefix", "example_prompt"}) # {})
    => ErrKind(results[1]) = "ConflictingFieldError"

\* C1 amended: a twin pair that the selected variant resolves makes the load
\* fail (no object is returned); the failure is raised by the top-level variant
\* and is the ConflictingFieldError of that pair, unless a statement earlier in
\* the fixed order failed first, whose error is then the one reported.
C1_ResolvedTwinsFail ==
    (given.entry = "load_prompt_from_config" /\ Len(results) = 1 /\ Idle)
    => \A F \in ResolvedTwins(given.arg.v) :
          /\ results[1].k = "err"
          /\ results[1] = failed.err
          /\ failed.depth = 2
          /\ \/ /\ failed.step = F
                /\ failed.err = Err("ConflictingFieldError", <<PathField(F), F>>)
             \/ Earlier(failed.step, F)

C1_Witness ==
    /\ given.entry = "load_prompt_from_config" /\ Len(results) = 1 /\ Idle
    /\ "prefix" \in ResolvedTwins(given.arg.v)
    /\ ErrKind(results[1]) = "ConflictingFieldError"
    /\ failed.step = "prefix"

\* C2: an unrecognized top-level _type fails with UnknownPromptTypeError, an
\* absent one selects the prompt variant; an output_parser._type other than
\* regex_parser fails with UnsupportedStrategyError naming the tag and the load
\* yields no object; an absent or null output_parser leaves the dict unchanged.
C2_UnknownTagsAbort ==
    /\ FirstLoadOver("load_prompt_from_config") =>
          LET c == given.arg.v IN
          /\ ResolvedType(c) \notin {Tag("prompt"), Tag("few_shot")}
                => results[1] = Err("UnknownPromptTypeError", <<>>)
          /\ ("output_parser" \in DOMAIN c /\ c["output_parser"] = Dict(OtherConfig))
                => results[1].k = "err"
    /\ (given.entry = "load_prompt_from_config" /\ Len(results) = 0 /\ Len(stack) >= 2
           /\ "_type" \notin DOMAIN given.arg.v)
          => stack[2].fn = "_load_prompt"
    /\ FirstLoadOver("_load_output_parser") =>
          LET c == given.arg.v IN
          IF "output_parser" \notin DOMAIN c \/ c["output_parser"] = None
          THEN results[1] = given.arg /\ caller = given.arg
          ELSE LET op == c["output_parser"] IN
               (op.k = "dict" /\ "_type" \in DOMAIN op.v
                   /\ op.v["_type"] # Tag("regex_parser"))
               => /\ ErrKind(results[1]) = "UnsupportedStrategyError"
                  /\ op.v["_type"].k = "str" => results[1].v.arg = op.v["_type"].v.parts
                  /\ caller = given.arg

C2_Witness ==
    /\ FirstLoadOver("_load_output_parser")
    /\ results[1] = Err("UnsupportedStrategyError", <<"json_parser">>)

\* C3: no constructor is ever given a `_type` keyword argument.
C3_NoTypeTagInConstructor == \A call \in ctorLog : "_type" \notin call.keys

\* C4: a temporary directory exists only while the _load_from_hub call that
\* created it is active, each call holds its own, and none is ever used again;
\* an identifier the hub does not have fails with NotFoundError naming
\* URL_BASE + identifier.
C4_TmpScopeReleased ==
    LET held == {i \in 1..Len(stack) : stack[i].tmp # 0} IN
    /\ DOMAIN tmpdirs = {stack[i].tmp : i \in held}
    /\ \A i \in held : stack[i].fn = "_load_from_hub"
    /\ \A i, j \in held : stack[i].tmp = stack[j].tmp => i = j
    /\ \A d \in DOMAIN tmpdirs : d < nextTmp
    /\ (FirstLoadOver("load_prompt") /\ given.arg.v.hub
           /\ given.arg.v.parts[Len(given.arg.v.parts)] \in {"py", "json", "yaml"}
           /\ given.arg.v.parts \notin DOMAIN Hub)
          => results[1] = Err("NotFoundError", <<URL_BASE>> \o given.arg.v.parts)

C4_Witness ==
    /\ given.entry = "load_prompt"
    /\ Len(results) = 1
    /\ stack = <<>>
    /\ nextTmp = 3
    /\ results[1].k = "err"
    /\ DOMAIN tmpdirs = {}

\* C5: a second load of the same configuration or file, after a first one that
\* succeeded, succeeds with a field-equal object.
C5_Idempotent == (Len(results) >= 2 /\ results[1].k = "obj") => results[2] = results[1]

\* C6: in every _load_few_shot_prompt call the statements run in the order
\* suffix, prefix, example sub-template, examples, output-strategy, construct;
\* once a statement has raised, no statement and no constructor runs, and the
\* exception reaches the caller unchanged.
C6_Step ==
    /\ \A i \in 1..Len(stack') :
          stack'[i].fn = "_load_few_shot_prompt" => IsPrefix(stack'[i].done, ClaimedOrder)
    /\ (ret.k # "err" /\ stack # <<>> /\ Top.fn = "_load_few_shot_prompt"
           /\ Len(stack') = Len(stack) + 1) =>
          LET config == Top.arg.v
              callee == stack'[Len(stack')]
          IN  /\ Top.done = SubSeq(ClaimedOrder, 1, 2)
              /\ IF "example_prompt_path" \in DOMAIN config
                 THEN callee.fn = "load_prompt" /\ callee.arg = config["example_prompt_path"]
                 ELSE /\ callee.fn = "load_prompt_from_config"
                      /\ callee.arg = config["example_prompt"]
    /\ ret.k = "err" =>
          /\ ret = failed.err
          /\ failed' = failed
          /\ ctorLog' = ctorLog
          /\ Len(stack') <= Len(stack)
          /\ \A i \in 1..Len(stack') : stack'[i].done = stack[i].done
          /\ IF stack = <<>> THEN results' = Append(results, ret) ELSE ret' = ret
C6_FixedOrder == [][C6_Step]_vars

C6_Witness ==
    /\ stack # <<>>
    /\ Top.fn = "_load_few_shot_prompt"
    /\ Top.done = SubSeq(ClaimedOrder, 1, 4)
    /\ ret.k = "err"
    /\ [ctor |-> "PromptTemplate", keys |-> {"template", "input_variables"}] \in ctorLog

\* C7: _load_template(V, config): without V_path the dict is unchanged; with
\* V_path, without V and with a .txt file, V is the file's text, V_path is gone
\* and the other fields are unchanged; with any other extension the call fails
\* with UnsupportedFormatError and V is not set.
C7_FieldMaterializer ==
    FirstLoadOver("_load_template") =>
       LET V == given.var
           c == given.arg.v
           pf == PathField(V)
           r == results[1]
       IN  /\ pf \notin DOMAIN c => (r = given.arg /\ caller = given.arg)
           /\ (pf \in DOMAIN c /\ V \notin DOMAIN c /\ c[pf].k = "str") =>
                 IF PathSuffix(c[pf].v) = "txt"
                 THEN FileThere(c[pf].v) =>
                         /\ r.k = "dict"
                         /\ caller = r
                         /\ DOMAIN r.v = (DOMAIN c \ {pf}) \cup {V}
                         /\ r.v[V] = LocalFS[c[pf].v.parts].text
                         /\ \A g \in DOMAIN c \ {pf} : r.v[g] = c[g]
                 ELSE /\ ErrKind(r) = "UnsupportedFormatError"
                      /\ V \notin DOMAIN caller.v

C7_Witness ==
    /\ FirstLoadOver("_load_template")
    /\ given.var = "suffix"
    /\ {"suffix_path", "template"} \subseteq DOMAIN given.arg.v
    /\ results[1].k = "dict"
    /\ results[1].v["suffix"] = Str(<<"Tell {x}">>)
    /\ "suffix_path" \notin DOMAIN results[1].v

\* C8: _load_examples: a list passes through unchanged; a path ending in .json,
\* .yaml or .yml is replaced by the decoded content of the file, order kept; a
\* path with any other extension fails with UnsupportedExamplesFormatError
\* whether or not the file exists, leaving `examples` as it was; any other type
\* fails with InvalidExamplesTypeError.
C8_ExamplesMaterializer ==
    (FirstLoadOver("_load_examples") /\ "examples" \in DOMAIN given.arg.v) =>
       LET ex == given.arg.v["examples"]
           r == results[1]
       IN  IF ex.k = "list" THEN r = given.arg
           ELSE IF ex.k = "str"
           THEN IF EndsWith(ex.v, {"json", "yaml", "yml"})
                THEN FileThere(ex.v) =>
                        r = Dict(Put(given.arg.v, "examples", LocalFS[ex.v.parts].doc))
                ELSE /\ ErrKind(r) = "UnsupportedExamplesFormatError"
                     /\ caller = given.arg
           ELSE ErrKind(r) = "InvalidExamplesTypeError"

\* C9: _load_prompt_from_file: a .json, .yaml or .yml file is parsed and handed
\* to the Config Resolver; a .py file gives its PROMPT binding directly, no
\* constructor being run, and fails when PROMPT is missing or no template;
\* every other extension fails with UnsupportedFormatError naming it.
C9_FormatReader ==
    (FirstLoadOver("load_prompt") /\ ~given.arg.v.hub) =>
       LET file == given.arg.v
           ext == PathSuffix(file)
           r == results[1]
       IN  IF ext \in {"json", "yaml", "yml"}
           THEN FileThere(file) => r # Err("UnsupportedFormatError", <<ext>>)
           ELSE IF ext = "py"
           THEN FileThere(file) =>
                   IF IsTemplate(LocalFS[file.parts].doc)
                   THEN r = LocalFS[file.parts].doc /\ ctorLog = {}
                   ELSE r.k = "err"
           ELSE r = Err("UnsupportedFormatError", <<ext>>)

LpfcDepth ==
    Cardinality({i \in 1..Len(stack) : stack[i].fn = "load_prompt_from_config"})

RECURSIVE NestDepth(_)
\* The nesting depth of the example_prompt dicts of a configuration.
NestDepth(x) ==
    1 + (IF x.k = "dict" /\ "example_prompt" \in DOMAIN x.v
         THEN NestDepth(x.v["example_prompt"]) ELSE 0)

\* C10 as stated: load_prompt_from_config is never active at a nesting depth
\* greater than two.
C10_TwoLevels == LpfcDepth <= 2

\* C10 amended: while no path reference is being resolved, the depth of
\* load_prompt_from_config is at most the nesting depth of the example_prompt
\* dicts of the configuration handed in; and every load ends.
C10_DepthOfConfig ==
    /\ [](( /\ given.entry = "load_prompt_from_config"
            /\ \A i \in 1..Len(stack) : stack[i].fn # "load_prompt")
          => LpfcDepth <= NestDepth(given.arg))
    /\ [](stack # <<>> => <>(stack = <<>> /\ ret = NoRet))

C10_Witness ==
    /\ given.entry = "load_prompt_from_config"
    /\ \A i \in 1..Len(stack) : stack[i].fn # "load_prompt"
    /\ LpfcDepth = 3
    /\ NestDepth(given.arg) = 3

====
